---- MODULE Spec2Model ----
(***************************************************************************)
(* Verification model of the tensor-metadata / autograd core:              *)
(*   - SparseTensorImpl (aten/src/ATen/SparseTensorImpl.h)                 *)
(*   - Variable, Variable::Impl, Variable::ViewImpl                        *)
(*     (torch/csrc/autograd/variable.cpp)                                  *)
(***************************************************************************)
EXTENDS Integers, Sequences, FiniteSets, TLC

(***************************************************************************)
(* Bounds of the model.                                                    *)
(***************************************************************************)
\* largest number of dimensions of a sparse tensor's size
MaxDims == 2
\* largest extent of one dimension
MaxExtent == 2
\* largest number of stored coordinates handed to the sparse tensor
MaxNnz == 2
\* largest number of Variables constructed where views of views are taken
MaxChain == 3
\* largest number of Variables constructed elsewhere
MaxVariables == 2
\* largest value a VersionCounter reaches
MaxVersion == 1
\* largest number of Function objects the wrappers create
MaxFunctions == 2
\* threads calling grad_accumulator()
MaxThreads == 2
\* AccumulateGrad objects created
MaxAccumulators == 2
\* Variables in the scenarios of grad_accumulator()
MaxWrappers == 2
\* rank of the dense tensors
MaxRank == 2
\* extents of their dimensions
MaxSize == 2
\* their strides
MaxStride == 2
\* TensorImpl objects
MaxTensors == 2

(***************************************************************************)
(* State of one SparseTensorImpl.                                          *)
(***************************************************************************)
VARIABLES
  sp,       \* the SparseTensorImpl: size_, sparseDims_, denseDims_, indices_, values_, coalesced_
  sp_ret    \* the last call on it: the operation, whether it succeeded, and whether
            \* its dimension counts added up to the length of its size

sparseVars == <<sp, sp_ret>>

(***************************************************************************)
(* State of the autograd wrappers.                                         *)
(***************************************************************************)
VARIABLES
  tensor_impl_,  \* per Variable handle: the index in impls of the object it points to
  impls,         \* the Variable::Impl / ViewImpl objects, with type and geometry of their tensor
  versions,      \* the VersionCounter objects: versions[c] is the counter impl c was created with
  functions,     \* the Function objects (backward nodes); the index is the object's identity
  accumulators,  \* the AccumulateGrad objects: their Variable, its device, their shared owners
  threads,       \* per thread: where it is in grad_accumulator(), on which Impl, what it was handed
  ret,           \* the last call: operation, Variable, whether it returned, value
  queried        \* the last grad_fn() that returned: Variable, Function, version read

(***************************************************************************)
(* State of the dense TensorImpl objects.                                  *)
(***************************************************************************)
VARIABLES
  tensors,  \* the TensorImpl / QTensorImpl objects, by identity
  t_ret     \* the last call on one: operation, object, value returned

tensorVars == <<tensors, t_ret>>

autogradVars == <<tensor_impl_, impls, versions, functions, accumulators, threads, ret, queried>>

vars ==
  <<sp, sp_ret, tensor_impl_, impls, versions, functions, accumulators, threads,
    ret, queried, tensors, t_ret>>

Dims == 0..MaxDims
Extents == 1..MaxExtent
Sizes == UNION {[1..n -> Extents] : n \in Dims}

\* IntList::slice(N): the elements after the first N
SliceFrom(s, n) == SubSeq(s, n + 1, Len(s))

\* An indeterminate element: memory a dense resize_ exposes without writing it.
Indeterminate == -1

\* A dense 2-d LongTensor: its shape and the element at every (row, column).
Cells(rows, cols) == (1..rows) \X (1..cols)
LongTensor(rows, cols, at) == [shape |-> <<rows, cols>>, at |-> at]
EmptyLongTensor(rows) == LongTensor(rows, 0, [p \in Cells(rows, 0) |-> 0])
FreshLongTensor(rows, cols) ==
  LongTensor(rows, cols, [p \in Cells(rows, cols) |-> Indeterminate])

\* Tensor::resize_ on indices_: a resize to the present sizes changes nothing;
\* any other resize re-lays the storage out and leaves the elements indeterminate.
TensorResize(t, shape) ==
  IF shape = t.shape
    THEN t
    ELSE FreshLongTensor(shape[1], shape[2])

\* Tensor::narrow(1, 0, n) on indices_: the first n columns, no copy.
NarrowColumns(t, n) ==
  LongTensor(t.shape[1], n, [p \in Cells(t.shape[1], n) |-> t.at[p]])

\* Tensor::narrow(0, 0, n) on values_ (only the shape of values_ is modelled).
NarrowRows(shape, n) == <<n>> \o Tail(shape)

\* int64_t nnz() const { return values_.size(0); }
nnz(t) == t.values_[1]

\* the result of a call: failure leaves the object as it was
Failed(t) == [ok |-> FALSE, t |-> t]
Done(t) == [ok |-> TRUE, t |-> t]

\* (mutant) the dimension counts are checked as resize_ checks them
raw_resize_checked(t, sparseDims, denseDims, size) ==
  IF sparseDims + denseDims # Len(size) THEN Failed(t)
  ELSE Done([t EXCEPT !.size_ = size, !.sparseDims_ = sparseDims, !.denseDims_ = denseDims])

\* void raw_resize_(sparseDims, denseDims, size)
raw_resize_(t, sparseDims, denseDims, size) ==
  Done([t EXCEPT !.size_ = size, !.sparseDims_ = sparseDims, !.denseDims_ = denseDims])

\* (mutant) the shrink test with <= for <: an unchanged sparse dimension counts as shrinking
shrinking_sparse_dims_or_equal(t, sparseDims, size) ==
  \E i \in 1..sparseDims : size[i] <= t.size_[i]

\* the loop of resize_ that looks for a shrinking sparse dimension
shrinking_sparse_dims(t, sparseDims, size) ==
  \E i \in 1..sparseDims : size[i] < t.size_[i]

\* (mutant) values_size starts from 0 instead of values().size(0)
resize_apply_drops_values(t, sparseDims, denseDims, size) ==
  LET changed == size # t.size_ \/ sparseDims # t.sparseDims_ \/ denseDims # t.denseDims_
      values_size == <<0>> \o SliceFrom(size, sparseDims)
      indices_size == <<sparseDims, t.indices_.shape[2]>>
  IN [t EXCEPT !.values_ = IF changed THEN values_size ELSE @,
               !.indices_ = IF changed THEN TensorResize(@, indices_size) ELSE @,
               !.size_ = size,
               !.sparseDims_ = sparseDims,
               !.denseDims_ = denseDims]

\* (mutant) indices_ is not resized to the new number of sparse dimensions
resize_apply_keeps_indices(t, sparseDims, denseDims, size) ==
  LET changed == size # t.size_ \/ sparseDims # t.sparseDims_ \/ denseDims # t.denseDims_
      values_size == <<nnz(t)>> \o SliceFrom(size, sparseDims)
  IN [t EXCEPT !.values_ = IF changed THEN values_size ELSE @,
               !.size_ = size,
               !.sparseDims_ = sparseDims,
               !.denseDims_ = denseDims]

\* (mutant) indices_ is replaced by a newly allocated tensor of the new size
resize_apply_reallocates(t, sparseDims, denseDims, size) ==
  LET changed == size # t.size_ \/ sparseDims # t.sparseDims_ \/ denseDims # t.denseDims_
      values_size == <<nnz(t)>> \o SliceFrom(size, sparseDims)
      indices_size == <<sparseDims, t.indices_.shape[2]>>
  IN [t EXCEPT !.values_ = IF changed THEN values_size ELSE @,
               !.indices_ = IF changed
                              THEN FreshLongTensor(indices_size[1], indices_size[2])
                              ELSE @,
               !.size_ = size,
               !.sparseDims_ = sparseDims,
               !.denseDims_ = denseDims]

\* void resize_(sparseDims, denseDims, size), after its checks
resize_apply(t, sparseDims, denseDims, size) ==
  LET changed == size # t.size_ \/ sparseDims # t.sparseDims_ \/ denseDims # t.denseDims_
      values_size == <<nnz(t)>> \o SliceFrom(size, sparseDims)
      indices_size == <<sparseDims, t.indices_.shape[2]>>
  IN [t EXCEPT !.values_ = IF changed THEN values_size ELSE @,
               !.indices_ = IF changed THEN TensorResize(@, indices_size) ELSE @,
               !.size_ = size,
               !.sparseDims_ = sparseDims,
               !.denseDims_ = denseDims]

\* (mutant) the size is stored before the checks on a non-empty tensor
resize_stores_size_first(t, sparseDims, denseDims, size) ==
  LET stored == [t EXCEPT !.size_ = size]
  IN IF sparseDims + denseDims # Len(size) THEN Failed(t)
     ELSE IF nnz(t) > 0 /\ sparseDims > Len(t.size_) THEN Failed(stored)
     ELSE IF nnz(t) > 0 /\ sparseDims # t.sparseDims_ THEN Failed(stored)
     ELSE IF nnz(t) > 0 /\ shrinking_sparse_dims(t, sparseDims, size) THEN Failed(stored)
     ELSE Done(resize_apply(t, sparseDims, denseDims, size))

\* void resize_(sparseDims, denseDims, size)
resize_(t, sparseDims, denseDims, size) ==
  IF sparseDims + denseDims # Len(size) THEN Failed(t)
  ELSE IF nnz(t) > 0 /\ sparseDims > Len(t.size_) THEN Failed(t) \* sizes().slice(0, sparseDims) is out of range
  ELSE IF nnz(t) > 0 /\ sparseDims # t.sparseDims_ THEN Failed(t)
  ELSE IF nnz(t) > 0 /\ shrinking_sparse_dims(t, sparseDims, size) THEN Failed(t)
  ELSE Done(resize_apply(t, sparseDims, denseDims, size))

\* void set_indices_and_values_unsafe(indices, values): both replaced by reference
set_indices_and_values_unsafe(t, indices, values) ==
  [t EXCEPT !.indices_ = indices, !.values_ = values]

\* void resize_and_clear_(sparseDims, denseDims, size)
resize_and_clear_(t, sparseDims, denseDims, size) ==
  IF sparseDims + denseDims # Len(size) THEN Failed(t)
  ELSE
    LET resized == [t EXCEPT !.size_ = size, !.sparseDims_ = sparseDims, !.denseDims_ = denseDims]
        empty_indices == EmptyLongTensor(sparseDims)
        empty_values == <<0>> \o SliceFrom(resized.size_, sparseDims)
    IN Done(set_indices_and_values_unsafe(resized, empty_indices, empty_values))

\* void set_coalesced(bool coalesced)
set_coalesced(t, coalesced) == Done([t EXCEPT !.coalesced_ = coalesced])

\* void set_nnz_and_narrow(nnz)
set_nnz_and_narrow(t, n) ==
  Done([t EXCEPT !.indices_ = NarrowColumns(@, n), !.values_ = NarrowRows(@, n)])

\* The field initialisers of SparseTensorImpl, before any resize.
BlankSparse ==
  [size_ |-> <<>>, sparseDims_ |-> 0, denseDims_ |-> 0,
   indices_ |-> EmptyLongTensor(0), values_ |-> <<0>>,
   coalesced_ |-> FALSE]

\* The coordinates a caller hands over: every entry 0, or a checkerboard of 0 and 1.
IndexPatterns == {"zero", "checker"}
Coordinates(pattern, rows, cols) ==
  LongTensor(rows, cols,
             [p \in Cells(rows, cols) |-> IF pattern = "zero" THEN 0 ELSE (p[1] + p[2]) % 2])

Returned(op, ok, fits) == [op |-> op, ok |-> ok, fits |-> fits]

(***************************************************************************)
(* Variable, Variable::Impl and Variable::ViewImpl.                        *)
(*                                                                         *)
(* A heap h = [impls, versions, functions, accumulators] holds the         *)
(* objects; an                                                             *)
(* operation returns [ok, heap, value]: whether it returned or threw, the  *)
(* heap it leaves, and the value it returned.                              *)
(***************************************************************************)
nullptr == 0

\* the Type objects of the tensors wrapped
Types == {"CPUFloatType", "CPULongType"}
isFloatingType(type) == type = "CPUFloatType"

\* sizes, strides and storage offset of a tensor: a row-major matrix and its transpose
Geometries ==
  { [sizes |-> <<2, 3>>, strides |-> <<3, 1>>, storage_offset |-> 0],
    [sizes |-> <<3, 2>>, strides |-> <<1, 3>>, storage_offset |-> 0] }
FirstGeometry == [sizes |-> <<2, 3>>, strides |-> <<3, 1>>, storage_offset |-> 0]
NoGeometry == [sizes |-> <<>>, strides |-> <<>>, storage_offset |-> 0]

\* struct Edge: a Function (or nullptr) and the index of one of its inputs;
\* accumulator_of names the leaf whose AccumulateGrad the edge leads to, if any
Edge(function, input_nr) ==
  [function |-> function, input_nr |-> input_nr, accumulator_of |-> nullptr]
AccumulatorEdge(leaf) ==
  [function |-> nullptr, input_nr |-> 0, accumulator_of |-> leaf]

\* The Functions that produced the tensors callers wrap: one with a single
\* output and one with two outputs.
ExternalFunctions ==
  << [name |-> "External", num_inputs |-> 1, self_geometry |-> NoGeometry,
      view_geometry |-> NoGeometry, fn |-> nullptr, next_edges |-> <<>>],
     [name |-> "External", num_inputs |-> 2, self_geometry |-> NoGeometry,
      view_geometry |-> NoGeometry, fn |-> nullptr, next_edges |-> <<>>] >>

\* the gradient edges callers pass: no function, or an output of an external Function
GradientEdges ==
  {Edge(nullptr, 0)} \cup
  {e \in {Edge(f, n) : f \in DOMAIN ExternalFunctions, n \in {0, 1}} :
     e.input_nr < ExternalFunctions[e.function].num_inputs}

Return(h, value) == [ok |-> TRUE, heap |-> h, value |-> value]
Throw(h) == [ok |-> FALSE, heap |-> h, value |-> nullptr]

\* Variable::Impl::Impl(Edge gradient_edge): the fields of the new object
Impl(flag, edge, type, geometry, version_counter) ==
  [grad_fn_ |-> edge.function,
   requires_grad_ |-> flag,
   is_view_ |-> FALSE,
   output_nr_ |-> edge.input_nr,
   base_ |-> nullptr,
   version_counter_ |-> version_counter,
   attr_version |-> 0,
   grad_accumulator_ |-> nullptr,
   mutex_ |-> nullptr,
   device |-> -1,
   type |-> type,
   geometry |-> geometry]

\* AT_CHECK(!grad_fn_ || !requires_grad_, ...) of the constructor
ImplCheck(impl) == impl.grad_fn_ = nullptr \/ ~impl.requires_grad_

\* make_variable: a new Impl with its own VersionCounter
NewImpl(h, flag, edge, type, geometry) ==
  LET id == Len(h.impls) + 1
      impl == Impl(flag, edge, type, geometry, id)
  IN IF (flag /\ ~isFloatingType(type)) \/ ~ImplCheck(impl)
       THEN Throw(h)
       ELSE Return([h EXCEPT !.impls = Append(@, impl), !.versions = Append(@, 0)], id)

\* (mutant) the base is kept as given, also when it is a view
ViewImpl_keeps_base(h, base, edge, geometry) ==
  LET id == Len(h.impls) + 1
      version_counter_ == h.impls[base].version_counter_
      impl == [Impl(FALSE, edge, h.impls[base].type, geometry, version_counter_)
                 EXCEPT !.base_ = base,
                        !.is_view_ = TRUE,
                        !.device = h.impls[base].device,
                        !.attr_version = h.versions[version_counter_]]
  IN Return([h EXCEPT !.impls = Append(@, impl), !.versions = Append(@, 0)], id)

\* Variable::ViewImpl::ViewImpl(Variable base, Edge gradient_edge)
ViewImpl(h, base, edge, geometry) ==
  LET id == Len(h.impls) + 1
      base_ == IF h.impls[base].is_view_ THEN h.impls[base].base_ ELSE base
      version_counter_ == h.impls[base_].version_counter_
      impl == [Impl(FALSE, edge, h.impls[base].type, geometry, version_counter_)
                 EXCEPT !.base_ = base_,
                        !.is_view_ = TRUE,
                        !.device = h.impls[base].device,
                        !.attr_version = h.versions[version_counter_]]
  IN Return([h EXCEPT !.impls = Append(@, impl), !.versions = Append(@, 0)], id)

\* (mutant) the element type is not looked at
set_requires_grad_any_type(h, self, flag) ==
  Return([h EXCEPT !.impls[self].requires_grad_ = flag], nullptr)

\* Variable& Variable::set_requires_grad(bool requires_grad)
set_requires_grad(h, self, flag) ==
  IF flag /\ ~isFloatingType(h.impls[self].type)
    THEN Throw(h)
    ELSE Return([h EXCEPT !.impls[self].requires_grad_ = flag], nullptr)

\* (mutant) the base of a view is not asked
requires_grad_own(h, self) ==
  h.impls[self].requires_grad_ \/ h.impls[self].grad_fn_ # nullptr

\* bool Variable::requires_grad() const
RECURSIVE requires_grad(_, _)
requires_grad(h, self) ==
  \/ h.impls[self].requires_grad_
  \/ h.impls[self].grad_fn_ # nullptr
  \/ (h.impls[self].is_view_ /\ requires_grad(h, h.impls[self].base_))

\* Variable::set_gradient_edge(Edge edge)
set_gradient_edge(h, self, edge) ==
  [h EXCEPT !.impls[self].grad_fn_ = edge.function,
            !.impls[self].output_nr_ = edge.input_nr]

\* Variable::gradient_edge() of a Variable that is no view, as collect_next_edges uses it
gradient_edge(h, self) ==
  IF h.impls[self].grad_fn_ # nullptr
    THEN Edge(h.impls[self].grad_fn_, h.impls[self].output_nr_)
    ELSE IF h.impls[self].requires_grad_ THEN AccumulatorEdge(self) ELSE Edge(nullptr, 0)

\* the AsStridedBackward grad_fn() builds for a view
AsStridedBackward(h, self) ==
  [name |-> "AsStridedBackward", num_inputs |-> 1,
   self_geometry |-> h.impls[h.impls[self].base_].geometry,
   view_geometry |-> h.impls[self].geometry,
   fn |-> nullptr,
   next_edges |-> <<gradient_edge(h, h.impls[self].base_)>>]

\* the CopySlices rebase_history builds for a view
CopySlices(h, self, fn) ==
  [name |-> "CopySlices", num_inputs |-> 1,
   self_geometry |-> h.impls[h.impls[self].base_].geometry,
   view_geometry |-> h.impls[self].geometry,
   fn |-> fn,
   next_edges |-> <<gradient_edge(h, h.impls[self].base_)>>]

\* (mutant) the cached grad_fn is never taken to be up to date
stale_always(attr_version, current_version) == TRUE

\* if (view_impl->attr_version != current_version)
stale(attr_version, current_version) == attr_version # current_version

\* (mutant) a view without history is not told apart
grad_fn_whatever_history(h, self) ==
  LET impl == h.impls[self]
      current_version == h.versions[impl.version_counter_]
      fn == Len(h.functions) + 1
  IN IF ~impl.is_view_ THEN Return(h, impl.grad_fn_)
     ELSE IF ~stale(impl.attr_version, current_version) THEN Return(h, impl.grad_fn_)
     ELSE IF impl.output_nr_ # 0 THEN Throw(h)
     ELSE Return([h EXCEPT !.functions = Append(@, AsStridedBackward(h, self)),
                           !.impls[self].grad_fn_ = fn,
                           !.impls[self].attr_version = current_version],
                 fn)

\* const std::shared_ptr<Function>& Variable::grad_fn() const
grad_fn(h, self) ==
  LET impl == h.impls[self]
      current_version == h.versions[impl.version_counter_]
      fn == Len(h.functions) + 1
  IN IF ~impl.is_view_ THEN Return(h, impl.grad_fn_)
     ELSE IF impl.grad_fn_ = nullptr /\ ~requires_grad(h, impl.base_) THEN Return(h, impl.grad_fn_)
     ELSE IF ~stale(impl.attr_version, current_version) THEN Return(h, impl.grad_fn_)
     ELSE IF impl.output_nr_ # 0 THEN Throw(h)
     ELSE Return([h EXCEPT !.functions = Append(@, AsStridedBackward(h, self)),
                           !.impls[self].grad_fn_ = fn,
                           !.impls[self].attr_version = current_version],
                 fn)

\* (mutant) the number of inputs is checked after the view and its base are changed
rebase_history_checks_late(h, self, edge) ==
  LET impl == h.impls[self]
      copy_slices == Len(h.functions) + 1
      rebased ==
        set_gradient_edge(
          [h EXCEPT !.impls[self].output_nr_ = edge.input_nr,
                    !.functions = Append(@, CopySlices(h, self, edge.function))],
          impl.base_, Edge(copy_slices, 0))
  IN IF edge.function = nullptr THEN Throw(h)
     ELSE IF ~impl.is_view_ THEN Return(set_gradient_edge(h, self, edge), nullptr)
     ELSE IF edge.input_nr # 0 THEN Throw(rebased)
     ELSE IF h.functions[edge.function].num_inputs # 1 THEN Throw(rebased)
     ELSE LET r == grad_fn(rebased, self)
          IN IF r.ok THEN Return(r.heap, nullptr) ELSE Throw(r.heap)

\* (mutant) the CopySlices is made but the base keeps its gradient edge
rebase_history_keeps_base(h, self, edge) ==
  LET impl == h.impls[self]
      rebased ==
        [h EXCEPT !.impls[self].output_nr_ = edge.input_nr,
                  !.functions = Append(@, CopySlices(h, self, edge.function))]
  IN IF edge.function = nullptr THEN Throw(h)
     ELSE IF ~impl.is_view_ THEN Return(set_gradient_edge(h, self, edge), nullptr)
     ELSE IF edge.input_nr # 0 THEN Throw(h)
     ELSE IF h.functions[edge.function].num_inputs # 1 THEN Throw(h)
     ELSE LET r == grad_fn(rebased, self)
          IN IF r.ok THEN Return(r.heap, nullptr) ELSE Throw(r.heap)

\* void Variable::rebase_history(Edge gradient_edge)
rebase_history(h, self, edge) ==
  LET impl == h.impls[self]
      copy_slices == Len(h.functions) + 1
      rebased ==
        set_gradient_edge(
          [h EXCEPT !.impls[self].output_nr_ = edge.input_nr,
                    !.functions = Append(@, CopySlices(h, self, edge.function))],
          impl.base_, Edge(copy_slices, 0))
  IN IF edge.function = nullptr THEN Throw(h)
     ELSE IF ~impl.is_view_ THEN Return(set_gradient_edge(h, self, edge), nullptr)
     ELSE IF edge.input_nr # 0 THEN Throw(h)
     ELSE IF h.functions[edge.function].num_inputs # 1 THEN Throw(h)
     ELSE LET r == grad_fn(rebased, self)
          IN IF r.ok THEN Return(r.heap, nullptr) ELSE Throw(r.heap)

\* An in-place operation on the tensor: it advances the VersionCounter the
\* Variable shares with its base and views, and may change the geometry.
bump(h, self, geometry) ==
  [h EXCEPT !.versions[h.impls[self].version_counter_] = @ + 1,
            !.impls[self].geometry = geometry]

\* the devices of the tensors wrapped: -1 for a CPU tensor, else the CUDA device
Kinds ==
  { [type |-> "CPUFloatType", device |-> -1], [type |-> "CPULongType", device |-> -1],
    [type |-> "CUDAFloatType", device |-> 0], [type |-> "CUDAFloatType", device |-> 1] }

\* make_variable of a tensor of the given kind
NewImplOn(h, flag, edge, kind) ==
  LET r == NewImpl(h, flag, edge, kind.type, FirstGeometry)
  IN IF r.ok THEN Return([r.heap EXCEPT !.impls[r.value].device = kind.device], r.value)
     ELSE r

\* std::make_shared<AccumulateGrad>(Variable(this)): one owner, the metadata
\* of its input taken from the Variable
AccumulateGrad(h, self) ==
  [variable |-> self, device |-> h.impls[self].device, use_count |-> 1]

\* (mutant) the weak reference never yields its object
weak_lock_expired(h, accumulator) == Return(h, nullptr)

\* std::weak_ptr::lock(): the object with one more owner, or nothing if the
\* reference is empty or no owner is left
weak_lock(h, accumulator) ==
  IF accumulator = nullptr \/ h.accumulators[accumulator].use_count = 0
    THEN Return(h, nullptr)
    ELSE Return([h EXCEPT !.accumulators[accumulator].use_count = @ + 1], accumulator)

\* ~shared_ptr(): one owner less
release(h, accumulator) ==
  IF accumulator = nullptr THEN h
  ELSE [h EXCEPT !.accumulators[accumulator].use_count = @ - 1]

\* (mutant) the flag is not looked at before the mutex is taken
grad_accumulator_enter_any(h, self) ==
  IF h.impls[self].grad_fn_ # nullptr THEN "throw" ELSE "lock"

\* Variable::grad_accumulator(), before the mutex: the two checks
grad_accumulator_enter(h, self) ==
  IF h.impls[self].grad_fn_ # nullptr THEN "throw"
  ELSE IF ~h.impls[self].requires_grad_ THEN "return"
  ELSE "lock"

\* (mutant) the mutex is taken whoever holds it
mutex_free_always(h, self) == TRUE

\* std::lock_guard<std::mutex> lock(mutex_) goes on when nobody holds the mutex
mutex_free(h, self) == h.impls[self].mutex_ = nullptr

mutex_lock(h, self, t) == [h EXCEPT !.impls[self].mutex_ = t]
mutex_unlock(h, self) == [h EXCEPT !.impls[self].mutex_ = nullptr]

\* Variable::grad_accumulator(), under the mutex: grad_accumulator_.lock()
grad_accumulator_lookup(h, self) == weak_lock(h, h.impls[self].grad_accumulator_)

\* Variable::grad_accumulator(), under the mutex: the accumulator is made and cached
grad_accumulator_create(h, self) ==
  LET result == Len(h.accumulators) + 1
  IN Return([h EXCEPT !.accumulators = Append(@, AccumulateGrad(h, self)),
                      !.impls[self].grad_accumulator_ = result], result)

\* Variable::set_data(Tensor new_data), under the mutex of the Impl the handle
\* points to: the cached accumulator is forgotten if new_data has another type
\* or device than the accumulator was made for
set_data(h, self, new_data) ==
  LET prior == weak_lock(h, h.impls[self].grad_accumulator_)
      prior_accumulator == prior.value
      new_device == h.impls[new_data].device
  IN IF prior_accumulator = nullptr THEN h
     ELSE IF \/ h.impls[new_data].type # h.impls[self].type
             \/ h.accumulators[prior_accumulator].device # new_device
       THEN release([prior.heap EXCEPT !.impls[self].grad_accumulator_ = nullptr], prior_accumulator)
       ELSE release(prior.heap, prior_accumulator)

\* Variable::grad_fn(), before the mutex: a Variable that is no view returns
\* its grad_fn_ at once
grad_fn_enter(h, self) == IF ~h.impls[self].is_view_ THEN "return" ELSE "lock"

\* Variable::grad_fn() of a view, under its mutex: the tests that come before
\* the rebuild
grad_fn_check(h, self) ==
  LET impl == h.impls[self]
  IN IF impl.grad_fn_ = nullptr /\ ~requires_grad(h, impl.base_) THEN "return"
     ELSE IF ~stale(impl.attr_version, h.versions[impl.version_counter_]) THEN "return"
     ELSE IF impl.output_nr_ # 0 THEN "throw"
     ELSE "rebuild"

\* (mutant) the next edges are collected from the view itself
collect_next_edges_self(h, self) == self

\* collect_next_edges(view_impl->base_): the Variable whose gradient_edge()
\* the rebuild asks for
collect_next_edges(h, self) == h.impls[self].base_

\* Variable::gradient_edge() as collect_next_edges calls it: grad_fn() of the
\* Variable, and grad_accumulator() if there is none
gradient_edge_enter(h, self) ==
  IF grad_fn_enter(h, self) = "return" /\ h.impls[self].grad_fn_ # nullptr THEN "return"
  ELSE grad_accumulator_enter(h, self)

\* Variable::rebase_history(Edge gradient_edge), up to its closing grad_fn()
rebase_history_enter(h, self, edge) ==
  LET impl == h.impls[self]
      copy_slices == Len(h.functions) + 1
  IN IF edge.function = nullptr THEN Throw(h)
     ELSE IF ~impl.is_view_ THEN Return(set_gradient_edge(h, self, edge), nullptr)
     ELSE IF edge.input_nr # 0 THEN Throw(h)
     ELSE IF h.functions[edge.function].num_inputs # 1 THEN Throw(h)
     ELSE Return(set_gradient_edge(
                   [h EXCEPT !.impls[self].output_nr_ = edge.input_nr,
                             !.functions = Append(@, CopySlices(h, self, edge.function))],
                   impl.base_, Edge(copy_slices, 0)),
                 nullptr)

\* threads and what each is doing
Threads == 1..MaxThreads
Idle ==
  [pc |-> "idle", self |-> nullptr, base |-> nullptr, result |-> nullptr, ok |-> TRUE,
   overlapped |-> FALSE]
InProgress == {"lock", "locked", "create"}

(***************************************************************************)
(* TensorImpl and QTensorImpl: sizes, strides, numel and contiguity.       *)
(***************************************************************************)
RECURSIVE Product(_)
Product(s) == IF s = <<>> THEN 1 ELSE Head(s) * Product(Tail(s))

\* (mutant) a new tensor has one element
DefaultTensorImpl_one_element ==
  [storage_offset_ |-> 0, sizes_ |-> <<0>>, strides_ |-> <<1>>,
   is_contiguous_ |-> TRUE, numel_ |-> 1,
   version_counter_ |-> 0, allow_tensor_metadata_change_ |-> TRUE]

\* TensorImpl::TensorImpl(Storage&&, TensorTypeId, ScalarType, bool), to which
\* the constructors without sizes delegate
DefaultTensorImpl ==
  [storage_offset_ |-> 0, sizes_ |-> <<0>>, strides_ |-> <<1>>,
   is_contiguous_ |-> TRUE, numel_ |-> 0,
   version_counter_ |-> 0, allow_tensor_metadata_change_ |-> TRUE]

\* TensorImpl::TensorImpl(Storage, storage_offset, sizes, strides,
\* is_contiguous, numel, ...): the fields are the arguments
TensorImplOf(storage_offset, sizes, strides, is_contiguous, numel) ==
  [storage_offset_ |-> storage_offset, sizes_ |-> sizes, strides_ |-> strides,
   is_contiguous_ |-> is_contiguous, numel_ |-> numel,
   version_counter_ |-> 0, allow_tensor_metadata_change_ |-> TRUE]

\* int64_t TensorImpl::dim() const
dim(t) == Len(t.sizes_)

\* bool TensorImpl::is_empty() const
is_empty(t) == t.numel_ = 0

\* the loop of compute_contiguous, from dimension d down, z the stride expected
RECURSIVE contiguous_from(_, _, _)
contiguous_from(t, d, z) ==
  IF d = 0 THEN TRUE
  ELSE IF t.sizes_[d] # 1
    THEN IF t.strides_[d] = z THEN contiguous_from(t, d - 1, z * t.sizes_[d]) ELSE FALSE
    ELSE contiguous_from(t, d - 1, z)

\* (mutant) dimensions of extent 1 are checked like the others
compute_contiguous_strict(t) ==
  IF is_empty(t) THEN TRUE
  ELSE \A d \in 1..dim(t) : t.strides_[d] = Product(SubSeq(t.sizes_, d + 1, dim(t)))

\* bool TensorImpl::compute_contiguous() const
compute_contiguous(t) ==
  IF is_empty(t) THEN TRUE ELSE contiguous_from(t, dim(t), 1)

\* TensorImpl::refresh_numel() and refresh_contiguous()
refresh_numel(t) == [t EXCEPT !.numel_ = Product(t.sizes_)]
refresh_contiguous(t) == [t EXCEPT !.is_contiguous_ = compute_contiguous(t)]

\* TensorImpl::resize_dim(ndim) to fewer dimensions: the first ndim are kept
resize_dim(t, ndim) ==
  refresh_contiguous(refresh_numel(
    [t EXCEPT !.sizes_ = SubSeq(@, 1, ndim), !.strides_ = SubSeq(@, 1, ndim)]))

\* TensorImpl* TensorImpl::maybe_zero_dim(bool condition_when_zero_dim)
maybe_zero_dim(t, condition_when_zero_dim) ==
  IF condition_when_zero_dim /\ Len(t.sizes_) = 1 /\ t.sizes_[1] = 1
    THEN resize_dim(t, 0)
    ELSE t

\* TensorImpl::copy_tensor_data(src_impl, dest_impl, version_counter,
\* allow_tensor_metadata_change)
copy_tensor_data(src_impl, dest_impl, version_counter, allow_tensor_metadata_change) ==
  [dest_impl EXCEPT !.storage_offset_ = src_impl.storage_offset_,
                    !.sizes_ = src_impl.sizes_,
                    !.strides_ = src_impl.strides_,
                    !.is_contiguous_ = src_impl.is_contiguous_,
                    !.version_counter_ = version_counter,
                    !.allow_tensor_metadata_change_ = allow_tensor_metadata_change]

\* QTensorImpl::shallow_copy_and_detach(version_counter, allow_tensor_metadata_change)
shallow_copy_and_detach(self, version_counter, allow_tensor_metadata_change) ==
  refresh_contiguous(refresh_numel(
    copy_tensor_data(self, DefaultTensorImpl, version_counter, allow_tensor_metadata_change)))

\* (mutant) the storage offset of the destination is put back after the copy
shallow_copy_from_keeps_offset(self, impl) ==
  refresh_contiguous(refresh_numel(
    [copy_tensor_data(impl, self, self.version_counter_, self.allow_tensor_metadata_change_)
       EXCEPT !.storage_offset_ = self.storage_offset_]))

\* void QTensorImpl::shallow_copy_from(c10::intrusive_ptr<TensorImpl> impl)
shallow_copy_from(self, impl) ==
  refresh_contiguous(refresh_numel(
    copy_tensor_data(impl, self, self.version_counter_, self.allow_tensor_metadata_change_)))

\* sizes and strides of the tensors built: every rank, extent and stride within bounds
Ranks == 0..MaxRank
SizeLists == UNION {[1..r -> 0..MaxSize] : r \in Ranks}
StrideLists(r) == [1..r -> 1..MaxStride]

TensorsIdle ==
  /\ tensors = <<>>
  /\ t_ret = [op |-> "none", self |-> nullptr, value |-> nullptr]


SparseIdle ==
  /\ sp = BlankSparse
  /\ sp_ret = Returned("none", TRUE, TRUE)

Heap ==
  [impls |-> impls, versions |-> versions, functions |-> functions,
   accumulators |-> accumulators]

Store(r) ==
  /\ impls' = r.heap.impls
  /\ versions' = r.heap.versions
  /\ functions' = r.heap.functions
  /\ accumulators' = r.heap.accumulators

\* the last call: its name, the Variable it was made on (for a constructor:
\* the base it was given), whether it returned, and the value it returned
\* (for backward(): the Function of the edge handed to Engine::execute; for
\* rebase_history(): the Function of the edge it was given)
Called(op, self, r) == [op |-> op, self |-> self, ok |-> r.ok, value |-> r.value]

\* the last grad_fn() that returned: the Variable asked, the Function returned
\* and the value of the VersionCounter at that time
\* and the value of the VersionCounter at that time, whether the Variable was
\* then a view with history, and whether the call before it was made on the
\* same Variable at the same value of the VersionCounter
NotQueried ==
  [self |-> nullptr, function |-> nullptr, version |-> 0, history |-> FALSE, repeated |-> FALSE]
Queried(self, function, version, history, repeated) ==
  [self |-> self, function |-> function, version |-> version,
   history |-> history, repeated |-> repeated]

\* the functions created so far stay within the bound
WithinFunctions(r) == Len(r.heap.functions) <= Len(ExternalFunctions) + MaxFunctions

AutogradIdle ==
  /\ tensor_impl_ = <<>>
  /\ impls = <<>>
  /\ versions = <<>>
  /\ functions = ExternalFunctions
  /\ accumulators = <<>>
  /\ threads = [t \in Threads |-> Idle]
  /\ ret = [op |-> "none", self |-> nullptr, ok |-> TRUE, value |-> nullptr]
  /\ queried = NotQueried

InitSparse ==
  /\ AutogradIdle
  /\ TensorsIdle
  /\ \E size \in Sizes : \E sparseDims \in 0..Len(size) :
       sp = resize_and_clear_(BlankSparse, sparseDims, Len(size) - sparseDims, size).t
  /\ sp_ret = Returned("resize_and_clear_", TRUE, TRUE)

Resize(sparseDims, denseDims, size) ==
  LET r == resize_(sp, sparseDims, denseDims, size)
  IN /\ sp' = r.t
     /\ sp_ret' = Returned("resize_", r.ok, sparseDims + denseDims = Len(size))
     /\ UNCHANGED <<autogradVars, tensorVars>>

ResizeAndClear(sparseDims, denseDims, size) ==
  LET r == resize_and_clear_(sp, sparseDims, denseDims, size)
  IN /\ sp' = r.t
     /\ sp_ret' = Returned("resize_and_clear_", r.ok, sparseDims + denseDims = Len(size))
     /\ UNCHANGED <<autogradVars, tensorVars>>

SetCoalesced(coalesced) ==
  /\ sp' = set_coalesced(sp, coalesced).t
  /\ sp_ret' = Returned("set_coalesced", TRUE, TRUE)
  /\ UNCHANGED <<autogradVars, tensorVars>>

\* callers narrow to at most the present number of coordinates
SetNnzAndNarrow(n) ==
  /\ n <= nnz(sp)
  /\ n <= sp.indices_.shape[2]
  /\ sp' = set_nnz_and_narrow(sp, n).t
  /\ sp_ret' = Returned("set_nnz_and_narrow", TRUE, TRUE)
  /\ UNCHANGED <<autogradVars, tensorVars>>

\* A caller that has verified its tensors hands over n coordinates whose
\* shapes fit the present size and dim-split.
SetIndicesAndValues(n, pattern) ==
  /\ sp.sparseDims_ + sp.denseDims_ = Len(sp.size_)
  /\ sp' = set_indices_and_values_unsafe(
             sp, Coordinates(pattern, sp.sparseDims_, n),
             <<n>> \o SliceFrom(sp.size_, sp.sparseDims_))
  /\ sp_ret' = Returned("set_indices_and_values_unsafe", TRUE, TRUE)
  /\ UNCHANGED <<autogradVars, tensorVars>>

\* The dense dimension counts a caller passes with a size and a sparse dimension
\* count: the one that completes the size, and one that does not.
DenseDimsFor(size, sparseDims) ==
  {d \in Dims : d + sparseDims = Len(size)} \cup {(Len(size) + 1) % (MaxDims + 1)}

NextSparse ==
  \/ \E size \in Sizes : \E sparseDims \in Dims : \E denseDims \in DenseDimsFor(size, sparseDims) :
       Resize(sparseDims, denseDims, size)
  \/ \E size \in Sizes : \E sparseDims \in Dims : \E denseDims \in DenseDimsFor(size, sparseDims) :
       ResizeAndClear(sparseDims, denseDims, size)
  \/ \E coalesced \in BOOLEAN : SetCoalesced(coalesced)
  \/ \E n \in 0..MaxNnz : SetNnzAndNarrow(n)
  \/ \E n \in 0..MaxNnz : \E pattern \in IndexPatterns : SetIndicesAndValues(n, pattern)

SpecSparse == InitSparse /\ [][NextSparse]_vars

\* raw_resize_(sparseDims, denseDims, size), whatever the three are
RawResize(sparseDims, denseDims, size) ==
  LET r == raw_resize_(sp, sparseDims, denseDims, size)
  IN /\ sp' = r.t
     /\ sp_ret' = Returned("raw_resize_", r.ok, sparseDims + denseDims = Len(size))
     /\ UNCHANGED <<autogradVars, tensorVars>>

\* raw_resize_ among the calls that leave the tensor as they find it or set
\* its coordinates anew.
NextRaw ==
  \/ \E size \in Sizes : \E sparseDims \in Dims : \E denseDims \in DenseDimsFor(size, sparseDims) :
       RawResize(sparseDims, denseDims, size)
  \/ \E coalesced \in BOOLEAN : SetCoalesced(coalesced)
  \/ \E n \in 0..MaxNnz : \E pattern \in IndexPatterns : SetIndicesAndValues(n, pattern)

SpecRaw == InitSparse /\ [][NextRaw]_vars

(***************************************************************************)
(* The autograd wrappers: initial state and calls.                         *)
(***************************************************************************)
InitAutograd == SparseIdle /\ AutogradIdle /\ TensorsIdle

Variables == DOMAIN tensor_impl_

\* make_variable(data, requires_grad) and make_variable(data, gradient_edge)
MakeVariable(limit, type, flag, edge) ==
  /\ Len(tensor_impl_) < limit
  /\ LET r == NewImpl(Heap, flag, edge, type, FirstGeometry)
     IN /\ Store(r)
        /\ tensor_impl_' = IF r.ok THEN Append(tensor_impl_, r.value) ELSE tensor_impl_
        /\ ret' = Called("make_variable", nullptr, r)
  /\ UNCHANGED <<queried, threads, sp, sp_ret, tensors, t_ret>>

\* make_variable_view(base, data, gradient_edge)
MakeView(limit, base, edge) ==
  /\ Len(tensor_impl_) < limit
  /\ LET r == ViewImpl(Heap, tensor_impl_[base], edge, FirstGeometry)
     IN /\ Store(r)
        /\ tensor_impl_' = Append(tensor_impl_, r.value)
        /\ ret' = Called("make_variable_view", base, r)
  /\ UNCHANGED <<queried, threads, sp, sp_ret, tensors, t_ret>>

SetRequiresGrad(self, flag) ==
  /\ LET r == set_requires_grad(Heap, tensor_impl_[self], flag)
     IN Store(r) /\ ret' = Called("set_requires_grad", self, r)
  /\ UNCHANGED <<tensor_impl_, queried, threads, sp, sp_ret, tensors, t_ret>>

SetGradientEdge(self, edge) ==
  /\ LET r == Return(set_gradient_edge(Heap, tensor_impl_[self], edge), nullptr)
     IN Store(r) /\ ret' = Called("set_gradient_edge", self, r)
  /\ UNCHANGED <<tensor_impl_, queried, threads, sp, sp_ret, tensors, t_ret>>

RebaseHistory(self, edge) ==
  /\ LET r == rebase_history(Heap, tensor_impl_[self], edge)
     IN /\ WithinFunctions(r)
        /\ Store(r)
        /\ ret' = [Called("rebase_history", self, r) EXCEPT !.value = edge.function]
  /\ UNCHANGED <<tensor_impl_, queried, threads, sp, sp_ret, tensors, t_ret>>

\* an in-place operation on the Variable's tensor
InPlace(self, geometry) ==
  /\ versions[impls[tensor_impl_[self]].version_counter_] < MaxVersion
  /\ LET r == Return(bump(Heap, tensor_impl_[self], geometry), nullptr)
     IN Store(r) /\ ret' = Called("in_place", self, r)
  /\ UNCHANGED <<tensor_impl_, queried, threads, sp, sp_ret, tensors, t_ret>>

\* what the caller of a grad_fn() that returned has seen
Observed(r, self) ==
  LET impl == impls[tensor_impl_[self]]
      current_version == versions[impl.version_counter_]
  IN IF r.ok
       THEN Queried(self, r.value, current_version,
                    impl.is_view_ /\ (impl.grad_fn_ # nullptr \/ requires_grad(Heap, impl.base_)),
                    queried.self = self /\ queried.version = current_version)
       ELSE queried

GradFn(self) ==
  /\ LET r == grad_fn(Heap, tensor_impl_[self])
     IN /\ WithinFunctions(r)
        /\ Store(r)
        /\ ret' = Called("grad_fn", self, r)
        /\ queried' = Observed(r, self)
  /\ UNCHANGED <<tensor_impl_, threads, sp, sp_ret, tensors, t_ret>>

\* void Variable::backward(gradient, keep_graph, create_graph)
backward(h, self) ==
  LET r == grad_fn(h, self)
      edges == IF r.ok THEN <<Edge(r.value, r.heap.impls[self].output_nr_)>> ELSE <<>>
  IN [ok |-> r.ok, heap |-> r.heap, edges |-> edges,
      value |-> IF Len(edges) = 1 THEN edges[1].function ELSE nullptr]

Backward(self) ==
  /\ LET r == backward(Heap, tensor_impl_[self])
     IN /\ WithinFunctions(r)
        /\ Store(r)
        /\ ret' = Called("backward", self, r)
        /\ queried' = Observed(r, self)
  /\ UNCHANGED <<tensor_impl_, threads, sp, sp_ret, tensors, t_ret>>

\* make_variable of a tensor on some device
MakeVariableOn(limit, kind, flag, edge) ==
  /\ Len(tensor_impl_) < limit
  /\ LET r == NewImplOn(Heap, flag, edge, kind)
     IN /\ Store(r)
        /\ tensor_impl_' = IF r.ok THEN Append(tensor_impl_, r.value) ELSE tensor_impl_
        /\ ret' = Called("make_variable", nullptr, r)
  /\ UNCHANGED <<queried, threads, sp, sp_ret, tensors, t_ret>>

\* the calls of other threads that are under way on the same Impl
Overlapping(t, impl) ==
  {u \in Threads \ {t} : threads[u].pc \in InProgress /\ threads[u].self = impl}

\* Thread t calls self.grad_accumulator(): the checks before the mutex.
Call(t, self) ==
  /\ threads[t].pc = "idle"
  /\ LET impl == tensor_impl_[self]
         to == grad_accumulator_enter(Heap, impl)
         call == [Idle EXCEPT !.self = impl]
     IN threads' =
          [u \in Threads |->
             IF u = t
               THEN IF to = "throw" THEN [call EXCEPT !.pc = "returned", !.ok = FALSE]
                    ELSE IF to = "return" THEN [call EXCEPT !.pc = "returned"]
                    ELSE [call EXCEPT !.pc = "lock", !.overlapped = Overlapping(t, impl) # {}]
             ELSE IF to = "lock" /\ u \in Overlapping(t, impl)
               THEN [threads[u] EXCEPT !.overlapped = TRUE]
             ELSE threads[u]]
  /\ UNCHANGED <<tensor_impl_, impls, versions, functions, accumulators, ret, queried, sp, sp_ret, tensors, t_ret>>

\* Thread t gets the mutex of the Impl.
Lock(t) ==
  /\ threads[t].pc = "lock"
  /\ mutex_free(Heap, threads[t].self)
  /\ Store(Return(mutex_lock(Heap, threads[t].self, t), nullptr))
  /\ threads' = [threads EXCEPT ![t].pc = "locked"]
  /\ UNCHANGED <<tensor_impl_, ret, queried, sp, sp_ret, tensors, t_ret>>

\* Thread t looks the cached accumulator up, and returns it if there is one.
Lookup(t) ==
  /\ threads[t].pc = "locked"
  /\ LET r == grad_accumulator_lookup(Heap, threads[t].self)
     IN IF r.value # nullptr
          THEN /\ Store(Return(mutex_unlock(r.heap, threads[t].self), r.value))
               /\ threads' = [threads EXCEPT ![t].pc = "returned", ![t].result = r.value]
          ELSE /\ Store(r)
               /\ threads' = [threads EXCEPT ![t].pc = "create"]
  /\ UNCHANGED <<tensor_impl_, ret, queried, sp, sp_ret, tensors, t_ret>>

\* Thread t makes the accumulator, caches it and returns it.
Create(t) ==
  /\ threads[t].pc = "create"
  /\ Len(accumulators) < MaxAccumulators
  /\ LET r == grad_accumulator_create(Heap, threads[t].self)
     IN /\ Store(Return(mutex_unlock(r.heap, threads[t].self), r.value))
        /\ threads' = [threads EXCEPT ![t].pc = "returned", ![t].result = r.value]
  /\ UNCHANGED <<tensor_impl_, ret, queried, sp, sp_ret, tensors, t_ret>>

\* The caller of thread t lets go of what the call handed it.
Drop(t) ==
  /\ threads[t].pc = "returned"
  /\ Store(Return(release(Heap, threads[t].result), nullptr))
  /\ threads' = [threads EXCEPT ![t] = Idle]
  /\ UNCHANGED <<tensor_impl_, ret, queried, sp, sp_ret, tensors, t_ret>>

\* self.set_data(new_data), the whole call under the mutex
SetData(self, new_data) ==
  /\ mutex_free(Heap, tensor_impl_[self])
  /\ LET r == Return(set_data(Heap, tensor_impl_[self], tensor_impl_[new_data]), nullptr)
     IN Store(r) /\ ret' = Called("set_data", self, r)
  /\ tensor_impl_' = [tensor_impl_ EXCEPT ![self] = tensor_impl_[new_data]]
  /\ UNCHANGED <<threads, queried, sp, sp_ret, tensors, t_ret>>

\* Thread t is through with its call: it holds no mutex any more.
ReturnedFrom(t, ok) == [threads EXCEPT ![t].pc = "returned", ![t].ok = ok]

\* Thread t calls self.grad_fn(): a view goes for its mutex.
GradFnCall(t, self) ==
  /\ threads[t].pc = "idle"
  /\ LET impl == tensor_impl_[self]
         call == [Idle EXCEPT !.self = impl]
     IN threads' = [threads EXCEPT ![t] =
                      IF grad_fn_enter(Heap, impl) = "return"
                        THEN [call EXCEPT !.pc = "returned"]
                        ELSE [call EXCEPT !.pc = "view_lock"]]
  /\ UNCHANGED <<tensor_impl_, impls, versions, functions, accumulators, ret, queried, sp, sp_ret, tensors, t_ret>>

\* Thread t calls self.rebase_history(edge): what comes before the closing
\* grad_fn() is done without any mutex.
RebaseHistoryCall(t, self, edge) ==
  /\ threads[t].pc = "idle"
  /\ LET impl == tensor_impl_[self]
         r == rebase_history_enter(Heap, impl, edge)
         call == [Idle EXCEPT !.self = impl]
     IN /\ WithinFunctions(r)
        /\ Store(r)
        /\ threads' = [threads EXCEPT ![t] =
                         IF ~r.ok THEN [call EXCEPT !.pc = "returned", !.ok = FALSE]
                         ELSE IF grad_fn_enter(r.heap, impl) = "return"
                           THEN [call EXCEPT !.pc = "returned"]
                         ELSE [call EXCEPT !.pc = "view_lock"]]
  /\ UNCHANGED <<tensor_impl_, ret, queried, sp, sp_ret, tensors, t_ret>>

\* Thread t gets the mutex of the view.
LockView(t) ==
  /\ threads[t].pc = "view_lock"
  /\ mutex_free(Heap, threads[t].self)
  /\ Store(Return(mutex_lock(Heap, threads[t].self, t), nullptr))
  /\ threads' = [threads EXCEPT ![t].pc = "view_locked"]
  /\ UNCHANGED <<tensor_impl_, ret, queried, sp, sp_ret, tensors, t_ret>>

\* Thread t, holding the view's mutex, returns the cached grad_fn, fails the
\* assertion or starts the rebuild.
Check(t) ==
  /\ threads[t].pc = "view_locked"
  /\ LET to == grad_fn_check(Heap, threads[t].self)
     IN IF to = "rebuild"
          THEN /\ threads' = [threads EXCEPT ![t].pc = "collect"]
               /\ UNCHANGED <<impls, versions, functions, accumulators>>
          ELSE /\ Store(Return(mutex_unlock(Heap, threads[t].self), nullptr))
               /\ threads' = ReturnedFrom(t, to = "return")
  /\ UNCHANGED <<tensor_impl_, ret, queried, sp, sp_ret, tensors, t_ret>>

\* Thread t, rebuilding, asks for the gradient edge of the base: that of a
\* leaf requiring grad is its accumulator, kept under the leaf's mutex.
CollectNextEdges(t) ==
  /\ threads[t].pc = "collect"
  /\ LET base == collect_next_edges(Heap, threads[t].self)
         to == gradient_edge_enter(Heap, base)
     IN IF to = "lock"
          THEN /\ threads' = [threads EXCEPT ![t].pc = "base_lock", ![t].base = base]
               /\ UNCHANGED <<impls, versions, functions, accumulators>>
          ELSE IF to = "return"
            THEN /\ threads' = [threads EXCEPT ![t].pc = "rebuild"]
                 /\ UNCHANGED <<impls, versions, functions, accumulators>>
          ELSE /\ Store(Return(mutex_unlock(Heap, threads[t].self), nullptr))
               /\ threads' = ReturnedFrom(t, FALSE)
  /\ UNCHANGED <<tensor_impl_, ret, queried, sp, sp_ret, tensors, t_ret>>

\* Thread t, holding the view's mutex, gets the mutex of the base.
LockBase(t) ==
  /\ threads[t].pc = "base_lock"
  /\ mutex_free(Heap, threads[t].base)
  /\ Store(Return(mutex_lock(Heap, threads[t].base, t), nullptr))
  /\ threads' = [threads EXCEPT ![t].pc = "base_locked"]
  /\ UNCHANGED <<tensor_impl_, ret, queried, sp, sp_ret, tensors, t_ret>>

\* Thread t takes the accumulator of the base, made now if there is none, and
\* lets go of the base's mutex; the edge of the Function being built owns it.
AccumulateBase(t) ==
  /\ threads[t].pc = "base_locked"
  /\ LET found == grad_accumulator_lookup(Heap, threads[t].base)
         r == IF found.value # nullptr THEN found
              ELSE grad_accumulator_create(found.heap, threads[t].base)
     IN /\ Len(r.heap.accumulators) <= MaxAccumulators
        /\ Store(Return(mutex_unlock(r.heap, threads[t].base), r.value))
  /\ threads' = [threads EXCEPT ![t].pc = "rebuild"]
  /\ UNCHANGED <<tensor_impl_, ret, queried, sp, sp_ret, tensors, t_ret>>

\* Thread t stores the new grad_fn and attr_version, and lets go of the
\* view's mutex.
Rebuild(t) ==
  /\ threads[t].pc = "rebuild"
  /\ LET r == grad_fn(Heap, threads[t].self)
     IN /\ WithinFunctions(r)
        /\ Store(Return(mutex_unlock(r.heap, threads[t].self), r.value))
        /\ threads' = ReturnedFrom(t, r.ok)
  /\ UNCHANGED <<tensor_impl_, ret, queried, sp, sp_ret, tensors, t_ret>>

\* Thread t calls self.set_data(new_data), new_data being a tensor self wraps
\* already: it goes for the mutex.
SetDataCall(t, self) ==
  /\ threads[t].pc = "idle"
  /\ threads' = [threads EXCEPT ![t] = [Idle EXCEPT !.self = tensor_impl_[self], !.pc = "data_lock"]]
  /\ UNCHANGED <<tensor_impl_, impls, versions, functions, accumulators, ret, queried, sp, sp_ret, tensors, t_ret>>

\* Thread t gets the mutex in set_data.
LockData(t) ==
  /\ threads[t].pc = "data_lock"
  /\ mutex_free(Heap, threads[t].self)
  /\ Store(Return(mutex_lock(Heap, threads[t].self, t), nullptr))
  /\ threads' = [threads EXCEPT ![t].pc = "data_locked"]
  /\ UNCHANGED <<tensor_impl_, ret, queried, sp, sp_ret, tensors, t_ret>>

\* Thread t, holding the mutex, looks at the cached accumulator, takes the new
\* tensor and lets go of the mutex.
UpdateData(t) ==
  /\ threads[t].pc = "data_locked"
  /\ LET h == set_data(Heap, threads[t].self, threads[t].self)
     IN Store(Return(mutex_unlock(h, threads[t].self), nullptr))
  /\ threads' = ReturnedFrom(t, TRUE)
  /\ UNCHANGED <<tensor_impl_, ret, queried, sp, sp_ret, tensors, t_ret>>

\* The geometries an in-place operation may leave: any for a tensor that owns
\* its layout, the present one for a view.
InPlaceGeometries(self) ==
  IF impls[tensor_impl_[self]].is_view_ THEN {impls[tensor_impl_[self]].geometry} ELSE Geometries

\* Views of views: construction and in-place operations.
NextViews ==
  \/ \E flag \in BOOLEAN : MakeVariable(MaxChain, "CPUFloatType", flag, Edge(nullptr, 0))
  \/ \E base \in Variables : \E edge \in GradientEdges : MakeView(MaxChain, base, edge)
  \/ \E self \in Variables : \E geometry \in InPlaceGeometries(self) : InPlace(self, geometry)

SpecViews == InitAutograd /\ [][NextViews]_vars

\* One base and its views, and their history: construction, in-place
\* operations, grad_fn(), backward() and rebase_history().
NextHistory ==
  \/ \E flag \in BOOLEAN : \E edge \in GradientEdges :
       Variables = {} /\ MakeVariable(MaxVariables, "CPUFloatType", flag, edge)
  \/ \E base \in Variables : \E edge \in GradientEdges : MakeView(MaxVariables, base, edge)
  \/ \E self \in Variables : \E edge \in GradientEdges : RebaseHistory(self, edge)
  \/ \E self \in Variables : \E geometry \in InPlaceGeometries(self) : InPlace(self, geometry)
  \/ \E self \in Variables : GradFn(self)
  \/ \E self \in Variables : Backward(self)

SpecHistory == InitAutograd /\ [][NextHistory]_vars

\* The requires_grad flag and the gradient edge: construction,
\* set_requires_grad(), set_gradient_edge() and rebase_history().
NextFlags ==
  \/ \E type \in Types : \E flag \in BOOLEAN : \E edge \in GradientEdges :
       MakeVariable(MaxVariables, type, flag, edge)
  \/ \E base \in Variables : \E edge \in GradientEdges : MakeView(MaxVariables, base, edge)
  \/ \E self \in Variables : \E flag \in BOOLEAN : SetRequiresGrad(self, flag)
  \/ \E self \in Variables : \E edge \in GradientEdges : SetGradientEdge(self, edge)
  \/ \E self \in Variables : \E edge \in GradientEdges : RebaseHistory(self, edge)

SpecFlags == InitAutograd /\ [][NextFlags]_vars

\* the edges of the Variables grad_accumulator() is called on: none, or an
\* output of a Function
LeafEdges == {Edge(nullptr, 0), Edge(1, 0)}

\* Threads calling grad_accumulator() once each and keeping what they get.
NextConcurrent ==
  \/ \E type \in Types : \E flag \in BOOLEAN : \E edge \in LeafEdges :
       MakeVariable(MaxWrappers, type, flag, edge)
  \/ \E t \in Threads : \E self \in Variables : Call(t, self)
  \/ \E t \in Threads : Lock(t)
  \/ \E t \in Threads : Lookup(t)
  \/ \E t \in Threads : Create(t)

SpecConcurrent == InitAutograd /\ [][NextConcurrent]_vars

\* grad_accumulator() on Variables of every sort: with and without flag, with
\* a grad_fn, views.
NextLeaves ==
  \/ \E type \in Types : \E flag \in BOOLEAN : \E edge \in LeafEdges :
       MakeVariable(MaxWrappers, type, flag, edge)
  \/ \E base \in Variables : MakeView(MaxWrappers, base, Edge(nullptr, 0))
  \/ \E t \in Threads : \E self \in Variables : Call(t, self)
  \/ \E t \in Threads : Lock(t)
  \/ \E t \in Threads : Lookup(t)
  \/ \E t \in Threads : Create(t)

SpecLeaves == InitAutograd /\ [][NextLeaves]_vars

\* grad_accumulator() called again and again on leaves, the accumulators
\* dropped, and set_data().
NextAccumulator ==
  \/ \E kind \in Kinds : \E flag \in BOOLEAN :
       MakeVariableOn(MaxWrappers, kind, flag, Edge(nullptr, 0))
  \/ \E t \in Threads : \E self \in Variables : Call(t, self)
  \/ \E t \in Threads : Lock(t)
  \/ \E t \in Threads : Lookup(t)
  \/ \E t \in Threads : Create(t)
  \/ \E t \in Threads : Drop(t)
  \/ \E self \in Variables : \E new_data \in Variables : SetData(self, new_data)

SpecAccumulator == InitAutograd /\ [][NextAccumulator]_vars

(***************************************************************************)
(* The dense TensorImpl objects: calls.                                    *)
(***************************************************************************)
\* Threads making one call each of grad_fn(), grad_accumulator(), set_data or
\* rebase_history() on a base and its views, with in-place operations.
NextLocks ==
  \/ /\ Variables = {}
     /\ \E flag \in BOOLEAN : \E edge \in LeafEdges :
          MakeVariable(MaxChain, "CPUFloatType", flag, edge)
  \/ \E base \in Variables : \E edge \in LeafEdges : MakeView(MaxChain, base, edge)
  \/ \E self \in Variables : InPlace(self, impls[tensor_impl_[self]].geometry)
  \/ \E self \in Variables : SetRequiresGrad(self, TRUE)
  \/ \E t \in Threads : \E self \in Variables : Call(t, self)
  \/ \E t \in Threads : Lock(t)
  \/ \E t \in Threads : Lookup(t)
  \/ \E t \in Threads : Create(t)
  \/ \E t \in Threads : \E self \in Variables : SetDataCall(t, self)
  \/ \E t \in Threads : LockData(t)
  \/ \E t \in Threads : UpdateData(t)
  \/ \E t \in Threads : \E self \in Variables : GradFnCall(t, self)
  \/ \E t \in Threads : \E self \in Variables : RebaseHistoryCall(t, self, Edge(1, 0))
  \/ \E t \in Threads : LockView(t)
  \/ \E t \in Threads : Check(t)
  \/ \E t \in Threads : CollectNextEdges(t)
  \/ \E t \in Threads : LockBase(t)
  \/ \E t \in Threads : AccumulateBase(t)
  \/ \E t \in Threads : Rebuild(t)

SpecLocks == InitAutograd /\ [][NextLocks]_vars

InitTensors == SparseIdle /\ AutogradIdle /\ TensorsIdle

TensorCalled(op, self, value) == [op |-> op, self |-> self, value |-> value]

\* the element counts callers pass: those of the tensors within the bounds
Numels == {Product(sizes) : sizes \in SizeLists}

\* the VariableVersion object handed to shallow_copy_and_detach: one other
\* than that of a TensorImpl newly made
VersionCounters == {1}

\* new TensorImpl(type_id, scalar_type, allocator, is_variable) or
\* new TensorImpl(storage, type_id, is_variable)
NewTensor(limit) ==
  /\ Len(tensors) < limit
  /\ tensors' = Append(tensors, DefaultTensorImpl)
  /\ t_ret' = TensorCalled("TensorImpl", Len(tensors) + 1, nullptr)
  /\ UNCHANGED <<sparseVars, autogradVars>>

\* new TensorImpl(storage, storage_offset, sizes, strides, is_contiguous, numel, ...)
NewTensorOf(limit, storage_offset, sizes, strides, is_contiguous, numel) ==
  /\ Len(tensors) < limit
  /\ tensors' = Append(tensors, TensorImplOf(storage_offset, sizes, strides, is_contiguous, numel))
  /\ t_ret' = TensorCalled("TensorImplOf", Len(tensors) + 1, nullptr)
  /\ UNCHANGED <<sparseVars, autogradVars>>

MaybeZeroDim(self, condition_when_zero_dim) ==
  /\ tensors' = [tensors EXCEPT ![self] = maybe_zero_dim(@, condition_when_zero_dim)]
  /\ t_ret' = TensorCalled("maybe_zero_dim", self, self)
  /\ UNCHANGED <<sparseVars, autogradVars>>

ComputeContiguous(self) ==
  /\ t_ret' = TensorCalled("compute_contiguous", self, compute_contiguous(tensors[self]))
  /\ UNCHANGED <<tensors, sparseVars, autogradVars>>

\* a QTensorImpl with the sizes and strides its factory gave it
NewQTensorOf(limit, storage_offset, sizes, strides) ==
  /\ Len(tensors) < limit
  /\ tensors' = Append(tensors,
                  refresh_contiguous(refresh_numel(
                    TensorImplOf(storage_offset, sizes, strides, TRUE, 0))))
  /\ t_ret' = TensorCalled("QTensorImplOf", Len(tensors) + 1, nullptr)
  /\ UNCHANGED <<sparseVars, autogradVars>>

ShallowCopyAndDetach(self, version_counter, allow_tensor_metadata_change) ==
  /\ Len(tensors) < MaxTensors
  /\ tensors' = Append(tensors,
                  shallow_copy_and_detach(tensors[self], version_counter,
                                          allow_tensor_metadata_change))
  /\ t_ret' = TensorCalled("shallow_copy_and_detach", self, Len(tensors) + 1)
  /\ UNCHANGED <<sparseVars, autogradVars>>

ShallowCopyFrom(self, impl) ==
  /\ tensors' = [tensors EXCEPT ![self] = shallow_copy_from(@, tensors[impl])]
  /\ t_ret' = TensorCalled("shallow_copy_from", self, impl)
  /\ UNCHANGED <<sparseVars, autogradVars>>

\* One TensorImpl: its constructors and maybe_zero_dim().
NextTensor ==
  \/ NewTensor(1)
  \/ /\ tensors = <<>>
     /\ \E storage_offset \in {0, 1} : \E sizes \in SizeLists :
          \E strides \in StrideLists(Len(sizes)) : \E is_contiguous \in BOOLEAN :
            \E numel \in Numels :
              NewTensorOf(1, storage_offset, sizes, strides, is_contiguous, numel)
  \/ \E self \in DOMAIN tensors : \E condition_when_zero_dim \in BOOLEAN :
       MaybeZeroDim(self, condition_when_zero_dim)

SpecTensor == InitTensors /\ [][NextTensor]_vars

\* compute_contiguous() of a tensor of any sizes and strides, its numel being
\* the product of its sizes.
NextContiguous ==
  \/ /\ tensors = <<>>
     /\ \E sizes \in SizeLists : \E strides \in StrideLists(Len(sizes)) :
          \E is_contiguous \in BOOLEAN :
            NewTensorOf(1, 0, sizes, strides, is_contiguous, Product(sizes))
  \/ \E self \in DOMAIN tensors : ComputeContiguous(self)

SpecContiguous == InitTensors /\ [][NextContiguous]_vars

\* A QTensorImpl of any sizes and strides, others newly made, and shallow
\* copies from one to another.
NextQTensor ==
  \/ /\ tensors = <<>>
     /\ \E storage_offset \in {0, 1} : \E sizes \in SizeLists :
          \E strides \in StrideLists(Len(sizes)) :
            NewQTensorOf(1, storage_offset, sizes, strides)
  \/ tensors # <<>> /\ NewTensor(MaxTensors)
  \/ \E self \in DOMAIN tensors : \E version_counter \in VersionCounters :
       \E allow_tensor_metadata_change \in {TRUE} :
         ShallowCopyAndDetach(self, version_counter, allow_tensor_metadata_change)
  \/ \E self \in DOMAIN tensors : \E impl \in DOMAIN tensors \ {self} :
       ShallowCopyFrom(self, impl)

SpecQTensor == InitTensors /\ [][NextQTensor]_vars

(***************************************************************************)
(* Properties of SparseTensorImpl, checked under SpecSparse.               *)
(***************************************************************************)
\* the calls resize_(sparseDims, denseDims, size) whose dimension counts add up
FittingResizeArgs ==
  {a \in Dims \X Dims \X Sizes : a[1] + a[2] = Len(a[3])}

\* C6: resize_ with sparseDims + denseDims = len(size) fails if and only if the
\* tensor is non-empty (nnz > 0) and either sparseDims differs from the present
\* sparse dimension count or some sparse dimension i < sparseDims gets smaller.
C6_ResizeFailsExactlyOnNonEmptyShrinkOrSplitChange ==
  \A a \in FittingResizeArgs :
    LET sparseDims == a[1]
        size == a[3]
        rejected ==
          /\ sp.values_[1] > 0
          /\ \/ sparseDims # sp.sparseDims_
             \/ \E i \in 1..sparseDims : size[i] < sp.size_[i]
    IN (~resize_(sp, a[1], a[2], a[3]).ok) <=> rejected

\* a resize_ whose dimension counts added up has just been rejected on a non-empty tensor
C6_Witness ==
  /\ sp_ret.op = "resize_" /\ sp_ret.fits /\ ~sp_ret.ok
  /\ sp.values_[1] > 0

\* C7: every successful resize_ leaves nnz() as it was, whatever the new size
\* and dim-split are.
C7_ResizeKeepsNnz ==
  \A sparseDims \in Dims : \A denseDims \in Dims : \A size \in Sizes :
    LET r == resize_(sp, sparseDims, denseDims, size)
    IN r.ok => r.t.values_[1] = sp.values_[1]

\* a resize_ has just succeeded on a non-empty tensor and changed its dense dimensions
C7_Witness ==
  /\ sp_ret.op = "resize_" /\ sp_ret.ok
  /\ sp.values_[1] > 0
  /\ sp.denseDims_ > 0

\* C8: sparseDims + denseDims = len(size), indices has shape [sparseDims, nnz]
\* and values has shape [nnz] followed by size[sparseDims:].
C8_SparseInvariants ==
  /\ sp.sparseDims_ + sp.denseDims_ = Len(sp.size_)
  /\ sp.indices_.shape = <<sp.sparseDims_, sp.values_[1]>>
  /\ sp.values_ = <<sp.values_[1]>> \o SubSeq(sp.size_, sp.sparseDims_ + 1, Len(sp.size_))

\* a resize_ has just succeeded on a tensor with stored coordinates, sparse and dense dimensions
C8_Witness ==
  /\ sp_ret.op = "resize_" /\ sp_ret.ok
  /\ sp.values_[1] > 0
  /\ sp.sparseDims_ > 0
  /\ sp.denseDims_ > 0

\* C9: a successful resize_ on a non-empty tensor that keeps the dim-split and
\* makes no sparse dimension smaller leaves indices as it was: the same shape
\* and the same entry at every (row, column).
C9_ResizeKeepsCoordinates ==
  \A a \in FittingResizeArgs :
    LET r == resize_(sp, a[1], a[2], a[3])
        grows == /\ sp.values_[1] > 0
                 /\ a[1] = sp.sparseDims_
                 /\ a[2] = sp.denseDims_
                 /\ \A i \in 1..a[1] : a[3][i] >= sp.size_[i]
    IN grows =>
         /\ r.ok
         /\ r.t.indices_.shape = sp.indices_.shape
         /\ \A p \in DOMAIN sp.indices_.at : r.t.indices_.at[p] = sp.indices_.at[p]

\* a resize_ has just succeeded on a tensor that stores coordinates, at least one of them 1
C9_Witness ==
  /\ sp_ret.op = "resize_" /\ sp_ret.ok
  /\ sp.values_[1] > 0
  /\ \E p \in DOMAIN sp.indices_.at : sp.indices_.at[p] = 1

\* C23: a resize_ that fails, for dimension counts that do not add up to the
\* length of size or, on a non-empty tensor, for another number of sparse
\* dimensions or a smaller sparse dimension, leaves size, sparseDims,
\* denseDims, the coalesced flag, indices and values as they were.
C23_FailedResizeChangesNothing ==
  \A size \in Sizes : \A sparseDims \in Dims : \A denseDims \in DenseDimsFor(size, sparseDims) :
    LET r == resize_(sp, sparseDims, denseDims, size)
    IN ~r.ok
       => /\ r.t.size_ = sp.size_
          /\ r.t.sparseDims_ = sp.sparseDims_
          /\ r.t.denseDims_ = sp.denseDims_
          /\ r.t.coalesced_ = sp.coalesced_
          /\ r.t.indices_ = sp.indices_
          /\ r.t.values_ = sp.values_

\* a resize_ to another number of sparse dimensions has just failed on a
\* coalesced tensor that holds coordinates
C23_Witness ==
  /\ sp_ret.op = "resize_" /\ ~sp_ret.ok /\ sp_ret.fits
  /\ nnz(sp) > 0
  /\ sp.coalesced_
  /\ sp.sparseDims_ > 0

\* C24: raw_resize_(sparseDims, denseDims, size) succeeds whatever its
\* arguments are, sets size, sparseDims and denseDims to them, and leaves
\* indices, values, nnz() and the coalesced flag as they were.
C24_RawResizeSetsShapeOnly ==
  \A size \in Sizes : \A sparseDims \in Dims : \A denseDims \in DenseDimsFor(size, sparseDims) :
    LET r == raw_resize_(sp, sparseDims, denseDims, size)
    IN /\ r.ok
       /\ r.t.size_ = size
       /\ r.t.sparseDims_ = sparseDims
       /\ r.t.denseDims_ = denseDims
       /\ r.t.indices_ = sp.indices_
       /\ r.t.values_ = sp.values_
       /\ nnz(r.t) = nnz(sp)
       /\ r.t.coalesced_ = sp.coalesced_

\* raw_resize_ has just been given dimension counts that do not add up to the
\* length of size, on a coalesced tensor that holds coordinates
C24_Witness ==
  /\ sp_ret.op = "raw_resize_" /\ sp_ret.ok /\ ~sp_ret.fits
  /\ sp.sparseDims_ + sp.denseDims_ # Len(sp.size_)
  /\ nnz(sp) > 0
  /\ sp.coalesced_

(***************************************************************************)
(* Properties of the autograd wrappers.                                    *)
(***************************************************************************)
\* C1: for a view V of base B with history (V has a grad_fn or B requires
\* grad), a V.grad_fn() made after B's version counter has advanced since the
\* previous V.grad_fn() returns, and returns another Function than that
\* previous call did, one that records B's geometry as it is at this call;
\* V.backward() starts the engine from that Function.
C1_ViewFunctionRebuiltAfterMutation ==
  [][\A self \in Variables :
       LET impl == impls[tensor_impl_[self]]
           base == impl.base_
       IN (/\ ret'.op \in {"grad_fn", "backward"}
           /\ ret'.self = self
           /\ impl.is_view_
           /\ \/ impl.grad_fn_ # nullptr
              \/ impls[base].requires_grad_
              \/ impls[base].grad_fn_ # nullptr
           /\ queried.self = self
           /\ queried.version < versions[impl.version_counter_])
          =>
          (/\ ret'.ok
           /\ ret'.value # nullptr
           /\ ret'.value # queried.function
           /\ functions'[ret'.value].self_geometry = impls[base].geometry)]_vars

\* C2: no Variable that is not a view has both a grad_fn and its own
\* requires_grad flag set.
C2_NoGradFnWithRequiresGrad ==
  \A i \in DOMAIN impls :
    ~impls[i].is_view_ => ~(impls[i].grad_fn_ # nullptr /\ impls[i].requires_grad_)

\* C3: the base of every view is no view, it is the root of the Variable the
\* view was constructed from, and the view shares that root's version counter.
C3_BaseOfViewIsRoot ==
  /\ \A i \in DOMAIN impls :
       impls[i].is_view_ =>
         /\ impls[i].base_ \in DOMAIN impls
         /\ ~impls[impls[i].base_].is_view_
         /\ impls[i].version_counter_ = impls[i].base_
         /\ impls[impls[i].base_].version_counter_ = impls[i].base_
  /\ (ret.op = "make_variable_view" /\ ret.ok) =>
       impls[ret.value].base_ =
         (IF impls[ret.self].is_view_ THEN impls[ret.self].base_ ELSE ret.self)

\* a view has just been constructed from a view
C3_Witness ==
  /\ ret.op = "make_variable_view" /\ ret.ok
  /\ impls[ret.self].is_view_
  /\ impls[ret.value].base_ # ret.self

\* C4: when two threads call grad_accumulator() at the same time on the same
\* leaf whose requires_grad flag is set, and keep what they get, both are
\* handed the same accumulator, and that leaf's accumulator was made once.
C4_ConcurrentCallsShareOneAccumulator ==
  \A t, u \in Threads :
    (/\ t # u
     /\ threads[t].pc = "returned" /\ threads[u].pc = "returned"
     /\ threads[t].self = threads[u].self
     /\ threads[t].self # nullptr
     /\ impls[threads[t].self].grad_fn_ = nullptr
     /\ impls[threads[t].self].requires_grad_)
    =>
    /\ threads[t].ok /\ threads[u].ok
    /\ threads[t].result # nullptr
    /\ threads[t].result = threads[u].result
    /\ Cardinality({a \in DOMAIN accumulators :
                      accumulators[a].variable = threads[t].self}) = 1

\* two calls on one leaf that were under way at the same time have returned
C4_Witness ==
  \E t, u \in Threads :
    /\ t # u
    /\ threads[t].pc = "returned" /\ threads[u].pc = "returned"
    /\ threads[t].overlapped /\ threads[u].overlapped
    /\ threads[t].self = threads[u].self
    /\ threads[t].result # nullptr
    /\ threads[t].result = threads[u].result

\* C5 (as stated): whatever grad_accumulator() calls, drops of the
\* accumulators handed out and set_data() calls were made, at most one
\* accumulator has been created for any one leaf.
C5_AtMostOneAccumulatorEver ==
  \A i \in DOMAIN impls :
    Cardinality({a \in DOMAIN accumulators : accumulators[a].variable = i}) <= 1

\* C5 (amended): a grad_accumulator() call that finds the leaf's cached
\* accumulator still owned by somebody returns that accumulator and creates
\* none; an accumulator is created, one at a time, only by a call that found
\* the cache empty, expired or reset by set_data().
C5_AccumulatorCreatedOnlyWhenCacheEmpty ==
  [][/\ \A t \in Threads :
          (threads[t].pc = "locked" /\ threads'[t].pc # "locked") =>
            LET cached == impls[threads[t].self].grad_accumulator_
            IN IF cached # nullptr /\ accumulators[cached].use_count > 0
                 THEN /\ threads'[t].pc = "returned"
                      /\ threads'[t].result = cached
                      /\ Len(accumulators') = Len(accumulators)
                 ELSE threads'[t].pc = "create"
     /\ Len(accumulators') # Len(accumulators) =>
          \E t \in Threads :
            LET cached == impls[threads[t].self].grad_accumulator_
            IN /\ threads[t].pc = "create"
               /\ threads'[t].pc = "returned"
               /\ cached = nullptr \/ accumulators[cached].use_count = 0
               /\ Len(accumulators') = Len(accumulators) + 1
               /\ threads'[t].result = Len(accumulators')
               /\ accumulators'[threads'[t].result].variable = threads[t].self
               /\ impls'[threads[t].self].grad_accumulator_ = threads'[t].result]_vars

\* a second accumulator has been made for a leaf whose first one was dropped,
\* and has been handed to a caller
C5_Witness ==
  \E t \in Threads : \E a \in DOMAIN accumulators :
    /\ threads[t].pc = "returned"
    /\ threads[t].result # nullptr
    /\ threads[t].result # a
    /\ accumulators[a].variable = threads[t].self
    /\ accumulators[a].use_count = 0

\* what a returned call on impl was handed, by the flag that is looked at
Handed(t, has_grad_fn, requires) ==
  /\ has_grad_fn => ~threads[t].ok
  /\ (~has_grad_fn /\ ~requires) => (threads[t].ok /\ threads[t].result = nullptr)
  /\ (~has_grad_fn /\ requires) => (threads[t].ok /\ threads[t].result # nullptr)

\* C10 (as stated): grad_accumulator() throws if the Variable has a grad_fn;
\* else it returns nothing if requires_grad() is false and an accumulator if
\* requires_grad() is true, also for a view for which it is true only through
\* its base.
C10_AccumulatorFollowsRequiresGrad ==
  \A t \in Threads :
    threads[t].pc = "returned" =>
      Handed(t, impls[threads[t].self].grad_fn_ # nullptr,
             requires_grad(Heap, threads[t].self))

\* C10 (amended): grad_accumulator() throws if the Variable has a grad_fn;
\* else it returns nothing if the Variable's own requires_grad flag is not set
\* (also for a view whose base requires grad) and an accumulator if it is set.
C10_AccumulatorFollowsOwnFlag ==
  \A t \in Threads :
    threads[t].pc = "returned" =>
      Handed(t, impls[threads[t].self].grad_fn_ # nullptr,
             impls[threads[t].self].requires_grad_)

\* grad_accumulator() has returned nothing for a view without grad_fn and
\* flag whose base requires grad
C10_Witness ==
  \E t \in Threads :
    /\ threads[t].pc = "returned"
    /\ threads[t].ok
    /\ threads[t].result = nullptr
    /\ impls[threads[t].self].is_view_
    /\ requires_grad(Heap, threads[t].self)

\* what C11 says of a rebase_history(edge) that has returned on the view self:
\* the base's grad_fn is the CopySlices made by the call, which wraps edge's
\* function, and a grad_fn() on the view now returns a Function made after
\* that CopySlices, other than the one cached before, whose next edge leads to
\* the CopySlices.
Rebased(self, edge) ==
  LET view == tensor_impl_[self]
      copy_slices == Len(functions) + 1
      r == grad_fn(Heap', view)
  IN /\ impls'[impls[view].base_].grad_fn_ = copy_slices
     /\ functions'[copy_slices].name = "CopySlices"
     /\ functions'[copy_slices].fn = edge.function
     /\ r.ok
     /\ r.value > copy_slices
     /\ r.value # impls[view].grad_fn_
     /\ r.heap.functions[r.value].next_edges[1].function = copy_slices

C12_RequiresGradIsComputedAfresh ==
  \A self \in DOMAIN impls :
    requires_grad(Heap, self) <=>
      \/ impls[self].requires_grad_
      \/ impls[self].grad_fn_ # nullptr
      \/ /\ impls[self].is_view_
         /\ \/ impls[impls[self].base_].requires_grad_
            \/ impls[impls[self].base_].grad_fn_ # nullptr

\* the flag or the gradient edge of the base of a view was just changed, and
\* the view, which has neither flag nor grad_fn, requires grad through it
C12_Witness ==
  /\ ret.op \in {"set_requires_grad", "set_gradient_edge", "rebase_history"}
  /\ ret.ok
  /\ \E view \in DOMAIN impls :
       /\ impls[view].is_view_
       /\ impls[view].base_ = tensor_impl_[ret.self]
       /\ ~impls[view].requires_grad_
       /\ impls[view].grad_fn_ = nullptr
       /\ requires_grad(Heap, view)

\* C13: set_requires_grad(true) on a Variable whose element type is not a
\* floating-point type fails and changes nothing; any other
\* set_requires_grad(b) returns and changes the own flag of that Variable to b
\* and nothing else, in particular not the flag of its base.
C13_SetRequiresGradSetsOwnFlagOnly ==
  [][\A self \in Variables : \A flag \in BOOLEAN :
       SetRequiresGrad(self, flag) =>
         LET impl == tensor_impl_[self]
         IN IF flag /\ ~isFloatingType(impls[impl].type)
              THEN ~ret'.ok /\ impls' = impls
              ELSE /\ ret'.ok
                   /\ impls' = [impls EXCEPT ![impl].requires_grad_ = flag]
                   /\ impls[impl].is_view_ =>
                        impls'[impls[impl].base_].requires_grad_ =
                          impls[impls[impl].base_].requires_grad_]_vars

\* set_requires_grad(true) has failed on a Variable of a type that is not
\* floating-point, whose flag is still not set
C13_Witness ==
  /\ ret.op = "set_requires_grad"
  /\ ~ret.ok
  /\ ~isFloatingType(impls[tensor_impl_[ret.self]].type)
  /\ ~impls[tensor_impl_[ret.self]].requires_grad_

(***************************************************************************)
(* Properties of grad_fn() and rebase_history() of views.                  *)
(***************************************************************************)
\* the step is a grad_fn() call on self, made directly or by backward()
QueriesGradFn(self) == GradFn(self) \/ Backward(self)

\* C17: of two grad_fn() calls, one right after the other, on a view with
\* history, between which the shared version counter did not change, the
\* second returns the Function the first returned and builds none; and a
\* grad_fn() call that builds a Function leaves attr_version at the value of
\* the counter it read.
C17_GradFnIsCachedPerVersion ==
  [][\A self \in Variables :
       LET view == tensor_impl_[self]
           current_version == versions[impls[view].version_counter_]
       IN (QueriesGradFn(self) /\ impls[view].is_view_) =>
            /\ (/\ queried.self = self
                /\ queried.history
                /\ queried.version = current_version)
               => /\ ret'.ok
                  /\ ret'.value = queried.function
                  /\ functions' = functions
                  /\ impls' = impls
            /\ Len(functions') > Len(functions)
               => /\ impls'[view].attr_version = current_version
                  /\ versions' = versions
                  /\ impls'[view].grad_fn_ = Len(functions')]_vars

\* a grad_fn() call on a view with history has returned an AsStridedBackward
\* that the call before it, made at the same version, had returned
C17_Witness ==
  /\ ret.op = "grad_fn" /\ ret.ok
  /\ queried.self = ret.self
  /\ queried.repeated /\ queried.history
  /\ queried.function = ret.value
  /\ ret.value # nullptr
  /\ functions[ret.value].name = "AsStridedBackward"

\* C18: grad_fn() of a view that has no grad_fn of its own and whose base does
\* not require grad returns nothing, whatever the version counter, builds no
\* Function and leaves the view's grad_fn and attr_version as they are.
C18_NoHistoryNoFunction ==
  [][\A self \in Variables :
       LET view == tensor_impl_[self]
       IN (/\ GradFn(self)
           /\ impls[view].is_view_
           /\ impls[view].grad_fn_ = nullptr
           /\ ~impls[impls[view].base_].requires_grad_
           /\ impls[impls[view].base_].grad_fn_ = nullptr)
          => /\ ret'.ok
             /\ ret'.value = nullptr
             /\ functions' = functions
             /\ impls'[view].grad_fn_ = impls[view].grad_fn_
             /\ impls'[view].attr_version = impls[view].attr_version
             /\ impls' = impls]_vars

\* grad_fn() has returned nothing for a view without history whose version
\* counter has advanced since the view was made
C18_Witness ==
  /\ ret.op = "grad_fn" /\ ret.ok /\ ret.value = nullptr
  /\ LET impl == impls[tensor_impl_[ret.self]]
     IN /\ impl.is_view_
        /\ impl.grad_fn_ = nullptr
        /\ ~requires_grad(Heap, impl.base_)
        /\ impl.attr_version # versions[impl.version_counter_]

\* C19: rebase_history(edge) on a view fails if edge's Function has not
\* exactly one input, and then leaves the base's gradient edge and the view's
\* grad_fn, output index and attr_version as they were.
C19_RebaseOnMultiInputFunctionChangesNothing ==
  [][\A self \in Variables : \A edge \in GradientEdges :
       LET view == tensor_impl_[self]
           base == impls[view].base_
       IN (/\ RebaseHistory(self, edge)
           /\ impls[view].is_view_
           /\ edge.function # nullptr
           /\ functions[edge.function].num_inputs # 1)
          => /\ ~ret'.ok
             /\ impls'[base].grad_fn_ = impls[base].grad_fn_
             /\ impls'[base].output_nr_ = impls[base].output_nr_
             /\ impls'[view].grad_fn_ = impls[view].grad_fn_
             /\ impls'[view].output_nr_ = impls[view].output_nr_
             /\ impls'[view].attr_version = impls[view].attr_version
             /\ functions' = functions]_vars

\* rebase_history has failed on a view for a Function of two inputs
C19_Witness ==
  /\ ret.op = "rebase_history"
  /\ ~ret.ok
  /\ impls[tensor_impl_[ret.self]].is_view_
  /\ ret.value # nullptr
  /\ functions[ret.value].num_inputs = 2

\* grad_fn() of the view gets as far as the rebuild: the view has history and
\* its attr_version is not the value of the version counter
RebuildReached(view) ==
  /\ impls[view].is_view_
  /\ impls[view].grad_fn_ # nullptr \/ requires_grad(Heap, impls[view].base_)
  /\ impls[view].attr_version # versions[impls[view].version_counter_]

\* C21: whenever grad_fn() of a view, called directly, by backward() or at the
\* end of rebase_history, reaches the rebuild, the view's output index is 0.
C21_RebuildStartsAtOutputZero ==
  [][\A self \in Variables :
       LET view == tensor_impl_[self]
       IN /\ (QueriesGradFn(self) /\ RebuildReached(view))
             => impls[view].output_nr_ = 0
          /\ \A edge \in GradientEdges :
               (/\ RebaseHistory(self, edge)
                /\ impls[view].is_view_
                /\ edge.function # nullptr
                /\ edge.input_nr = 0
                /\ functions[edge.function].num_inputs = 1)
               => ret'.ok]_vars

(***************************************************************************)
(* Properties of the mutexes.                                              *)
(***************************************************************************)
\* the threads waiting for a mutex, and the Impl whose mutex each waits for
Waiting ==
  {t \in Threads : threads[t].pc \in {"lock", "data_lock", "view_lock", "base_lock"}}
Wanted(t) == IF threads[t].pc = "base_lock" THEN threads[t].base ELSE threads[t].self

\* the Impls whose mutex the thread holds
Held(t) == {i \in DOMAIN impls : impls[i].mutex_ = t}

\* some threads each wait for a mutex held by one of them
Deadlocked ==
  \E stuck \in SUBSET Threads :
    /\ stuck # {}
    /\ \A t \in stuck : t \in Waiting /\ impls[Wanted(t)].mutex_ \in stuck

\* C22: the threads never deadlock: a thread holding the mutex of a view waits
\* for no mutex but that of the view's base, which is no view, and a thread
\* holding the mutex of a Variable that is no view waits for none.
C22_MutexesAreTakenViewThenBase ==
  /\ ~Deadlocked
  /\ \A t \in Waiting : \A i \in Held(t) :
       /\ impls[i].is_view_
       /\ Wanted(t) = impls[i].base_
       /\ Wanted(t) # i
       /\ ~impls[Wanted(t)].is_view_

\* a thread holding the mutex of a view waits for the mutex of the base, which
\* another thread holds
C22_Witness ==
  \E t \in Waiting : \E u \in Threads \ {t} :
    /\ threads[t].pc = "base_lock"
    /\ Held(t) = {threads[t].self}
    /\ impls[threads[t].self].is_view_
    /\ impls[Wanted(t)].mutex_ = u

(***************************************************************************)
(* Properties of the dense TensorImpl objects.                             *)
(***************************************************************************)
\* C14: numel() of every TensorImpl is the product of its sizes(), after each
\* constructor and after every operation that changes it, maybe_zero_dim
\* included.
C14_NumelIsProductOfSizes ==
  \A self \in DOMAIN tensors : tensors[self].numel_ = Product(tensors[self].sizes_)

\* the extents of the dimensions after d multiplied, as row-major strides are
LaterExtents(t, d) == Product(SubSeq(t.sizes_, d + 1, Len(t.sizes_)))

\* C15: compute_contiguous() is true exactly when the tensor has no element
\* or every dimension of another extent than 1 has as stride the product of
\* the extents of the later dimensions that are not skipped; it is true for
\* row-major strides and false for a transposed pair of dimensions of extents
\* other than 1.
C15_ContiguousIsRowMajorButForUnitExtents ==
  t_ret.op = "compute_contiguous" =>
    LET t == tensors[t_ret.self]
    IN /\ t_ret.value <=>
            \/ Product(t.sizes_) = 0
            \/ \A d \in 1..Len(t.sizes_) :
                 t.sizes_[d] # 1 => t.strides_[d] = LaterExtents(t, d)
       /\ (\A d \in 1..Len(t.sizes_) : t.strides_[d] = LaterExtents(t, d)) => t_ret.value
       /\ (/\ Len(t.sizes_) = 2
           /\ t.sizes_[1] > 1 /\ t.sizes_[2] > 1
           /\ t.strides_ = <<1, t.sizes_[1]>>) => ~t_ret.value

\* compute_contiguous() has returned true for a tensor with elements that has
\* a dimension of extent 1 whose stride is not the row-major one
C15_Witness ==
  /\ t_ret.op = "compute_contiguous"
  /\ t_ret.value = TRUE
  /\ LET t == tensors[t_ret.self]
     IN /\ Product(t.sizes_) # 0
        /\ \E d \in 1..Len(t.sizes_) :
             t.sizes_[d] = 1 /\ t.strides_[d] # LaterExtents(t, d)
        /\ \E d \in 1..Len(t.sizes_) : t.sizes_[d] # 1

\* sizes, strides, storage offset and numel of two tensors are the same
SameGeometry(a, b) ==
  /\ a.sizes_ = b.sizes_
  /\ a.strides_ = b.strides_
  /\ a.storage_offset_ = b.storage_offset_
  /\ a.numel_ = b.numel_

C20_DefaultTensorHasNoDimension ==
  \A self \in DOMAIN tensors :
    (t_ret.op = "TensorImpl" /\ t_ret.self = self) =>
      /\ dim(tensors[self]) = 0
      /\ Len(tensors[self].sizes_) = 0 /\ Len(tensors[self].strides_) = 0
      /\ tensors[self].is_contiguous_
      /\ tensors[self].numel_ = Product(tensors[self].sizes_)

\* C20 (amended): a TensorImpl made by a constructor without sizes and
\* strides has one dimension of extent 0 and stride 1, is contiguous, and its
\* numel, 0, is the product of its sizes.
C20_DefaultTensorIsEmptyVector ==
  \A self \in DOMAIN tensors :
    (t_ret.op = "TensorImpl" /\ t_ret.self = self) =>
      /\ dim(tensors[self]) = 1
      /\ tensors[self].sizes_ = <<0>> /\ tensors[self].strides_ = <<1>>
      /\ tensors[self].is_contiguous_ /\ compute_contiguous(tensors[self])
      /\ tensors[self].numel_ = 0
      /\ tensors[self].numel_ = Product(tensors[self].sizes_)

\* a TensorImpl has just been made by a constructor without sizes
C20_Witness ==
  /\ t_ret.op = "TensorImpl"
  /\ tensors[t_ret.self].sizes_ = <<0>>

====
